---------------------------- MODULE Spec2Model ----------------------------
(***************************************************************************)
(* Model of gsp-heating-server: the heating control engine                 *)
(* (HeatingService), the Modbus register plane (MemoryAreaManager,         *)
(* ModbusRegistersMapper) and the Modbus TCP slave (ModbusSlaveService).   *)
(*                                                                         *)
(* Temperatures and percentages are integers in hundredths (22.55 degC is  *)
(* 2255), so that the x10 scaling of the register plane really rounds.     *)
(***************************************************************************)
EXTENDS Integers, Sequences, FiniteSets, TLC

(* ------------------------------ bounds -------------------------------- *)

\* number of heating devices; device d has Modbus unit id d
NDev == 2
\* setTemperature calls whose Settings Store write is still in flight
MaxPending == 2
\* PID runs per behaviour (the integral is an unbounded accumulator)
MaxTicks == 2
\* reconnect timeouts of the sensor broker that are set at one time
MaxTimers == 2

Devices == 1..NDev

(* ------------------------- program constants -------------------------- *)

\* register scale of the x10 quantities (applyScale / removeScale)
Scale == 10
\* one engineering unit in model units: one decimal digit below the scale
Unit == Scale * 10
HOLDING_REGISTERS == 30
INPUT_REGISTERS == 10
COILS == 16
DISCRETE_INPUTS == 16
ENABLE_AUTO_CONTROL == 2
DISABLE_AUTO_CONTROL == 4
\* setpoint limits of setTemperature, degC
SetpointMin == 5
SetpointMax == 35
\* setpoint written by the constructor and by onModuleInit, degC
ConstructorSetpoint == 15
InitSetpoint == 23
\* MqttService.maxReconnectAttempts
maxReconnectAttempts == 5
\* connections attempted in a row by reconnect timeouts in one behaviour
MaxReconnects == maxReconnectAttempts + 1
\* fan dead-zone of runPIDControl, percent
MinFanSpeed == 15
\* temperatureSettings of the device configuration: 0.5 degC, and degC
HYSTERESIS == Unit \div 2
TEMP_OVERHEAT_LIMIT == 35
TEMP_FREEZE_LIMIT == 5
\* pidSettings of the device configuration
Kp == 2
Ki == 1
Kd == 1
outputMin == 0
outputMax == 30

(* ------------------------------ inputs -------------------------------- *)

\* telemetry payloads that parse to a number (hundredths of degC)
TempInputs == {-520, 3600}
\* telemetry payloads at the ends of the INT16 x10 range, around zero, and
\* one just past the upper end (hundredths of degC)
EdgeTemps == {-327680, -520, -5, 2255, 327670, 327675}
\* setTemperature arguments from HTTP / WebSocket (hundredths of degC)
SetInputs == {499, 2255, 3501}
\* setFanSpeed arguments from HTTP / WebSocket (hundredths of percent)
FanInputs == {5000, 10100}
\* raw 16-bit values written to the SETPOINT_TEMP holding register
SetpointRaw == {225, 65484}
\* raw 16-bit values written to the COMMAND holding register
CommandRaw == {0, 1, 2, 4, 6}
\* relative holding registers written one at a time: SETPOINT_TEMP and
\* HYSTERESIS
RoundTripRegs == {0, 1}
\* raw 16-bit values written to them
RoundTripRaw == {225, 65535}
\* registers of an FC16 frame that runs one register past the slice end
PastEnd == <<7, 225>>
\* the unit byte of a frame: the configured units and one without a device
MbapUnits == 1..(NDev + 1)
\* flat coil addresses written: bits 0 and 1 of the first slice, bit 0 of the
\* second slice
CoilAddresses == {0, 1, COILS}
\* FC15 frames: the bits for two coils
CoilFrames == {<<TRUE, TRUE>>, <<FALSE, TRUE>>}
\* bits asked for by an FC01 / FC02 frame
BitQuantity == 8
\* months of the wall clock: winter, spring, summer
Months == {1, 4, 7}
\* regulator outputs the seasonal rule is asked about (hundredths of percent)
PidOutputs == {-100, 0, 1, 3000}
\* months in which the server is started in the specification of the seasons:
\* late winter, late spring, summer
SeasonStarts == {3, 5, 7}
\* telemetry around the setpoint of onModuleInit: below it, above it inside
\* the hysteresis band, above it outside the band (hundredths of degC)
RegTemps == {2000, 2330, 2400}
\* two setpoints inside the limits, for calls that overlap (hundredths of degC)
OrderInputs == {2250, 2255}
\* the device the HTTP / WebSocket clients and the sensor bus address in the
\* control-engine specification; the other devices run beside it
Commanded == {1}
\* the units the setpoint and command paths address
Addressed == {1, 2}

(* ------------------------- bit-field utilities ------------------------ *)

\* Math.round(n / d) for d > 0: halves round towards +infinity
JSRound(n, d) == (2 * n + d) \div (2 * d)

Max(a, b) == IF a >= b THEN a ELSE b
Min(a, b) == IF a <= b THEN a ELSE b
Abs(a) == IF a < 0 THEN -a ELSE a

toUint16(value) == value % 65536

\* toInt16 that drops the sign
toInt16_Magnitude(value) == Abs(value) % 65536

toInt16(value) ==
    LET result == value % 65536
    IN  IF result >= 32768 THEN result - 65536 ELSE result

fromInt16(value) ==
    IF value < 0 THEN value
    ELSE IF value >= 32768 THEN value - 65536 ELSE value

\* applyScale that truncates where the code rounds
applyScale_Truncating(value) == value \div (Unit \div Scale)

\* applyScale(value, 10) of a quantity held in hundredths
applyScale(value) == JSRound(value, Unit \div Scale)

\* removeScale(value, 10), result in hundredths
removeScale(value) == value * (Unit \div Scale)

getBit(word, bitOffset) == (word \div (2 ^ bitOffset)) % 2 = 1

setBit(word, bitOffset, value) ==
    IF value THEN (IF getBit(word, bitOffset) THEN word ELSE word + 2 ^ bitOffset)
    ELSE (IF getBit(word, bitOffset) THEN word - 2 ^ bitOffset ELSE word)

(* ------------------------------- state -------------------------------- *)

VARIABLES
    phase,      \* startup position: "constructed", "loaded", "heating", "running"
    month,      \* month of the wall clock read by getSeasonalValveState
    connected,  \* state.client.connected of the actuator broker
    sensors,    \* MqttService.clientStates of the sensor broker, and its timers
    dev,        \* HeatingService.states
    db,         \* heating_settings rows with setting_key = setpoint_temperature
    pend,       \* setTemperature calls suspended at the await of the store write
    hold,       \* MemoryAreaManager holding registers, per unit
    inp,        \* MemoryAreaManager input registers, per unit
    coils,      \* MemoryAreaManager coils, per unit
    disc,       \* MemoryAreaManager discrete inputs, per unit
    emitted,    \* events emitted by the last step, in order
    published,  \* MQTT messages handed to the client by the last step, in order
    dropped,    \* MQTT messages publish discarded during the last step, in order
    reply,      \* what the last step answered to the source of its request
    last,       \* the last step taken and its input
    ticks       \* PID runs so far

vars == <<phase, month, connected, sensors, dev, db, pend, hold, inp, coils, disc,
          emitted, published, dropped, reply, last, ticks>>

\* a Settings Store cell: absent, a decimal number, or text parseFloat rejects
NoSetting == [k |-> "none", v |-> 0]
TextSetting == [k |-> "text", v |-> 0]
NumSetting(t) == [k |-> "num", v |-> t]

\* the state written by the HeatingService constructor and by onModuleInit
NewState(setpoint) ==
    [ currentFanSpeed     |-> 0,
      valveState          |-> "closed",
      currentTemperature  |-> 0,
      setpointTemperature |-> setpoint,
      pidOutput           |-> 0,
      isEmergencyStop     |-> FALSE,
      isWorking           |-> FALSE,
      isOnline            |-> FALSE,
      autoControlEnabled  |-> FALSE,
      integral            |-> 0,
      prevError           |-> 0 ]

\* clientStates[name] as connectToBroker writes it, with a client that has
\* not connected yet; subs are the topics the broker delivers to that client,
\* timers the reconnect timeouts that are set, reconnects the connections
\* attempted by reconnect timeouts since a client last connected
NewClient(timers) ==
    [ status |-> "connecting", reconnectAttempts |-> 0, topics |-> {},
      subs |-> {}, timers |-> timers, reconnects |-> 0 ]

\* the part of the program state the operations below transform
World ==
    [ dev |-> dev, db |-> db, pend |-> pend, hold |-> hold, inp |-> inp,
      coils |-> coils, disc |-> disc, emitted |-> <<>>, published |-> <<>>,
      dropped |-> <<>>, reply |-> "none", sensors |-> sensors ]

(* -------------------------- MemoryAreaManager ------------------------- *)

\* units that have a memory map (the enabled devices)
getAllUnitIds == Devices

writeRegister(w, unitId, area, address, value) ==
    IF unitId \notin getAllUnitIds THEN w
    ELSE IF area = "holding"
         THEN IF address < 0 \/ address >= HOLDING_REGISTERS THEN w
              ELSE [w EXCEPT !.hold[unitId][address] = value % 65536]
         ELSE IF address < 0 \/ address >= INPUT_REGISTERS THEN w
              ELSE [w EXCEPT !.inp[unitId][address] = value % 65536]

readRegister(w, unitId, area, address) ==
    IF unitId \notin getAllUnitIds THEN 0
    ELSE IF area = "holding"
         THEN IF address < 0 \/ address >= HOLDING_REGISTERS THEN 0
              ELSE w.hold[unitId][address]
         ELSE IF address < 0 \/ address >= INPUT_REGISTERS THEN 0
              ELSE w.inp[unitId][address]

writeBit(w, unitId, area, address, value) ==
    IF unitId \notin getAllUnitIds THEN w
    ELSE IF area = "coils"
         THEN IF address < 0 \/ address >= COILS THEN w
              ELSE [w EXCEPT !.coils[unitId][address] = value]
         ELSE IF address < 0 \/ address >= DISCRETE_INPUTS THEN w
              ELSE [w EXCEPT !.disc[unitId][address] = value]

\* readBit followed by the "?? false" of its callers: undefined reads as false
readBit(w, unitId, area, address) ==
    IF unitId \notin getAllUnitIds THEN FALSE
    ELSE IF area = "coils"
         THEN IF address < 0 \/ address >= COILS THEN FALSE
              ELSE w.coils[unitId][address]
         ELSE IF address < 0 \/ address >= DISCRETE_INPUTS THEN FALSE
              ELSE w.disc[unitId][address]

(* ------------------------ ModbusRegistersMapper ----------------------- *)

\* unitIdToDeviceId: 0 stands for undefined
getDeviceId(unitId) == IF unitId \in Devices THEN unitId ELSE 0

statusWord(state) ==
    LET w0 == setBit(0, 0, state.isOnline)
        w1 == setBit(w0, 1, state.isWorking)
        w2 == setBit(w1, 2, state.isEmergencyStop)
        w3 == setBit(w2, 3, FALSE)
        w4 == setBit(w3, 4, state.autoControlEnabled)
        w5 == setBit(w4, 5, FALSE)
        w6 == setBit(w5, 6, FALSE)
    IN  setBit(w6, 7, state.valveState = "open")

\* syncDiscreteInputs that leaves the VALVE_OPEN bit clear
syncDiscreteInputs_NoValveBit(w, unitId, state) ==
    [w EXCEPT !.disc[unitId] =
        [bit \in 0..(DISCRETE_INPUTS - 1) |-> bit # 7 /\ getBit(statusWord(state), bit)]]

syncDiscreteInputs(w, unitId, state) ==
    [w EXCEPT !.disc[unitId] =
        [bit \in 0..(DISCRETE_INPUTS - 1) |-> getBit(statusWord(state), bit)]]

syncCoils(w, unitId, state) ==
    [w EXCEPT !.coils[unitId] =
        [bit \in 0..(COILS - 1) |->
            IF bit = 0 THEN state.autoControlEnabled
            ELSE IF bit = 1 THEN FALSE ELSE @[bit]]]

syncInputRegisters(w, unitId, state) ==
    LET r0 == writeRegister(w, unitId, "input", 0,
                  toInt16(applyScale(state.currentTemperature)))
        r1 == writeRegister(r0, unitId, "input", 1,
                  toUint16(JSRound(state.currentFanSpeed, Unit)))
        r2 == writeRegister(r1, unitId, "input", 2,
                  toUint16(IF state.valveState = "open" THEN 1 ELSE 0))
        r3 == writeRegister(r2, unitId, "input", 3,
                  toInt16(applyScale(state.pidOutput)))
    IN  writeRegister(r3, unitId, "input", 4, statusWord(state))

\* stringToRegisters(deviceId, 5) masked by writeRegister; the ids are
\* "ШУК<n>", padded with spaces
stringToRegisters(deviceId) ==
    [i \in 0..4 |-> IF i = 0 THEN 11299
                    ELSE IF i = 1 THEN 6656 + 48 + deviceId
                    ELSE 8224]

syncHoldingRegisters(w, unitId, state, deviceId) ==
    LET r0 == writeRegister(w, unitId, "holding", 0,
                  toInt16(applyScale(state.setpointTemperature)))
        r1 == writeRegister(r0, unitId, "holding", 1, toUint16(applyScale(50)))
        r2 == writeRegister(r1, unitId, "holding", 2, toInt16(applyScale(1500)))
        r3 == writeRegister(r2, unitId, "holding", 3, toInt16(applyScale(3000)))
        r4 == writeRegister(r3, unitId, "holding", 4, toInt16(applyScale(500)))
        r5 == writeRegister(r4, unitId, "holding", 5, toInt16(applyScale(3500)))
    IN  [r5 EXCEPT !.hold[unitId] =
            [a \in 0..(HOLDING_REGISTERS - 1) |->
                IF a \in 20..24 THEN stringToRegisters(deviceId)[a - 20]
                ELSE @[a]]]

syncHeatingStateToModbus(w, deviceId, state) ==
    IF deviceId \notin Devices THEN w
    ELSE LET unitId == deviceId
             a == syncDiscreteInputs(w, unitId, state)
             b == syncCoils(a, unitId, state)
             c == syncInputRegisters(b, unitId, state)
         IN  syncHoldingRegisters(c, unitId, state, deviceId)

\* ModbusSlaveService.syncHeatingToModbus: the listener of every heating event
syncHeatingToModbus(w, heatingId) ==
    IF heatingId \notin Devices THEN w
    ELSE syncHeatingStateToModbus(w, heatingId, w.dev[heatingId])

(* ------------------------ event bus and publish ----------------------- *)

\* eventEmitter.emit: listeners run synchronously inside the call
Emit(w, name, heatingId, val) ==
    syncHeatingToModbus(
        [w EXCEPT !.emitted = Append(@, [name |-> name, dev |-> heatingId, val |-> val])],
        heatingId)

\* MqttService.publish: dropped with a warning while the client is not connected
publish(w, heatingId, topic, message) ==
    IF ~connected
    THEN [w EXCEPT !.dropped =
             Append(@, [dev |-> heatingId, topic |-> topic, val |-> message])]
    ELSE [w EXCEPT !.published =
             Append(@, [dev |-> heatingId, topic |-> topic, val |-> message])]

\* MqttService.connectToBroker for the sensor broker: a new client and a new
\* clientStates entry
connectToBroker(w) ==
    [w EXCEPT !.sensors = [NewClient(@.timers) EXCEPT !.reconnects = w.sensors.reconnects]]

\* MqttService.handleReconnect: a timeout that will connect again
handleReconnect(w) ==
    IF w.sensors.reconnectAttempts >= maxReconnectAttempts THEN w
    ELSE [w EXCEPT !.sensors.reconnectAttempts = @ + 1,
                   !.sensors.timers = @ + 1]

\* MqttService.resubscribeToTopics: the remembered topics, on the client of
\* the entry
resubscribeToTopics(w) ==
    IF w.sensors.status # "connected" THEN w
    ELSE [w EXCEPT !.sensors.subs = @ \cup w.sensors.topics]

\* MqttService.subscribe to the temperature topic of one device, with the
\* callback that remembers the topic
subscribe(w, heatingId) ==
    IF heatingId \in w.sensors.topics THEN w
    ELSE [w EXCEPT !.sensors.subs = @ \cup {heatingId},
                   !.sensors.topics = @ \cup {heatingId}]

(* ---------------------------- HeatingService -------------------------- *)

\* getSeasonalValveState that opens in spring and autumn also at output 0
getSeasonalValveState_OpenAtZero(pidOutput) ==
    IF month \in {11, 12, 1, 2, 3} THEN TRUE
    ELSE IF month >= 6 /\ month <= 8 THEN FALSE
    ELSE IF (month >= 9 /\ month <= 10) \/ (month >= 4 /\ month <= 5)
         THEN pidOutput >= 0
         ELSE FALSE

getSeasonalValveState(pidOutput) ==
    IF month \in {11, 12, 1, 2, 3} THEN TRUE
    ELSE IF month >= 6 /\ month <= 8 THEN FALSE
    ELSE IF (month >= 9 /\ month <= 10) \/ (month >= 4 /\ month <= 5)
         THEN pidOutput > 0
         ELSE FALSE

\* setSeasonalValve that publishes without comparing with the shadow state
setSeasonalValve_Unconditional(w, heatingId, shouldOpen) ==
    [publish(w, heatingId, "valve", IF shouldOpen THEN 1 ELSE 0)
        EXCEPT !.dev[heatingId].valveState = IF shouldOpen THEN "open" ELSE "closed"]

setSeasonalValve(w, heatingId, shouldOpen) ==
    LET newState == IF shouldOpen THEN "open" ELSE "closed"
    IN  IF w.dev[heatingId].valveState = newState THEN w
        ELSE [publish(w, heatingId, "valve", IF shouldOpen THEN 1 ELSE 0)
                 EXCEPT !.dev[heatingId].valveState = newState]

setValve(w, heatingId, open) ==
    LET newState == IF open THEN "open" ELSE "closed"
    IN  IF w.dev[heatingId].valveState = newState THEN w
        ELSE Emit([publish(w, heatingId, "valve", IF open THEN 1 ELSE 0)
                      EXCEPT !.dev[heatingId].valveState = newState],
                  "heating.valve.state.changed", heatingId, IF open THEN 1 ELSE 0)

\* the startup sweep of one device: published and stored without comparing
applySeasonalValveLogic(w, heatingId) ==
    LET seasonalValveState == getSeasonalValveState(0)
    IN  [publish(w, heatingId, "valve", IF seasonalValveState THEN 1 ELSE 0)
            EXCEPT !.dev[heatingId].valveState =
                IF seasonalValveState THEN "open" ELSE "closed"]

RECURSIVE applySasonalValveLogicToAll(_, _)
applySasonalValveLogicToAll(w, heatingId) ==
    IF heatingId > NDev THEN w
    ELSE applySasonalValveLogicToAll(applySeasonalValveLogic(w, heatingId), heatingId + 1)

updateTemperature(w, heatingId, temperature) ==
    Emit([w EXCEPT !.dev[heatingId].currentTemperature = temperature,
                   !.dev[heatingId].isOnline = TRUE],
         "heating.temperature.updated", heatingId, temperature)

\* the bleed without its lower bound
Bleed_Unclamped(integral) == (integral * 95) \div 100

\* pidState.integral * 0.95, in hundredths
Bleed(integral) == Max(0, (integral * 95) \div 100)

runPIDControl(w, heatingId) ==
    LET state == w.dev[heatingId]
        raw == state.setpointTemperature - state.currentTemperature
        error == IF state.isWorking /\ raw < 0 /\ Abs(raw) <= HYSTERESIS THEN 0 ELSE raw
        i1 == state.integral + error
        i2 == IF error < 0 THEN Bleed(i1) ELSE i1
        derivative == error - state.prevError
        output == Max(outputMin * Unit, Min(outputMax * Unit,
                      Kp * error + Ki * i2 + Kd * derivative))
        i3 == IF error < 0 THEN Bleed(i2) ELSE i2
        fanSpeed == Max(0, output)
        w1 == [w EXCEPT !.dev[heatingId].integral = i3,
                        !.dev[heatingId].pidOutput = output,
                        !.dev[heatingId].currentFanSpeed = output,
                        !.dev[heatingId].prevError = error]
        w2 == IF fanSpeed < MinFanSpeed * Unit
              THEN publish(w1, heatingId, "fan", 0)
              ELSE publish(w1, heatingId, "fan", fanSpeed)
        w3 == setSeasonalValve(w2, heatingId, getSeasonalValveState(output))
        w4 == [w3 EXCEPT !.dev[heatingId].isWorking = output > 0]
    IN  Emit(w4, "heating.pid.updated", heatingId, output)

\* an interval callback that looks at emergency stop alone
pidControlInterval_AutoIgnored(w, heatingId) ==
    IF ~w.dev[heatingId].isEmergencyStop THEN runPIDControl(w, heatingId) ELSE w

\* the setInterval callback of onModuleInit
pidControlInterval(w, heatingId) ==
    IF w.dev[heatingId].autoControlEnabled /\ ~w.dev[heatingId].isEmergencyStop
    THEN runPIDControl(w, heatingId)
    ELSE w

setFanSpeed(w, heatingId, speed) ==
    IF heatingId \notin Devices \/ speed < 0 \/ speed > 100 * Unit THEN w
    ELSE [publish(w, heatingId, "fan", speed)
             EXCEPT !.dev[heatingId].currentFanSpeed = speed,
                    !.dev[heatingId].pidOutput = speed]

\* loadSettingsFromDatabase for one device: parseFloat of the stored string
loadSetting(w, heatingId) ==
    IF w.db[heatingId].k = "num"
    THEN [w EXCEPT !.dev[heatingId].setpointTemperature = w.db[heatingId].v]
    ELSE w

RECURSIVE loadSettingsFromDatabase(_, _)
loadSettingsFromDatabase(w, heatingId) ==
    IF heatingId > NDev THEN w
    ELSE loadSettingsFromDatabase(loadSetting(w, heatingId), heatingId + 1)

\* setTemperature that checks only the lower limit
setTemperature_NoUpperLimit(w, heatingId, temperature) ==
    IF heatingId \notin Devices THEN w
    ELSE IF temperature < SetpointMin * Unit THEN w
    ELSE [w EXCEPT !.dev[heatingId].setpointTemperature = temperature,
                   !.pend = Append(@, [dev |-> heatingId, temperature |-> temperature])]

\* setTemperature up to its await: validation, the assignment, the store call
setTemperature(w, heatingId, temperature) ==
    IF heatingId \notin Devices THEN w
    ELSE IF temperature < SetpointMin * Unit \/ temperature > SetpointMax * Unit THEN w
    ELSE [w EXCEPT !.dev[heatingId].setpointTemperature = temperature,
                   !.pend = Append(@, [dev |-> heatingId, temperature |-> temperature])]

\* DatabaseService.setHeatingSetting: the upsert, or a rejected promise
setHeatingSetting(w, heatingId, settingValue, ok) ==
    IF ok THEN [w EXCEPT !.db[heatingId] = NumSetting(settingValue)] ELSE w

RemoveAt(seq, i) == SubSeq(seq, 1, i - 1) \o SubSeq(seq, i + 1, Len(seq))

\* setTemperature after its await, without the catch block: a store failure
\* leaves the call before the event is emitted
setTemperatureResume_Rethrow(w, i, ok) ==
    LET call == w.pend[i]
        w1 == setHeatingSetting(w, call.dev, call.temperature, ok)
        w2 == [w1 EXCEPT !.pend = RemoveAt(@, i)]
    IN  IF ok THEN Emit(w2, "heating.setpoint.changed", call.dev, call.temperature)
        ELSE w2

\* setTemperature after its await: the catch block swallows a store failure
setTemperatureResume(w, i, ok) ==
    LET call == w.pend[i]
        w1 == setHeatingSetting(w, call.dev, call.temperature, ok)
        w2 == [w1 EXCEPT !.pend = RemoveAt(@, i)]
    IN  Emit(w2, "heating.setpoint.changed", call.dev, call.temperature)

\* enableAutoControl that switches automatic control over instead of on
enableAutoControl_Toggling(w, heatingId) ==
    IF heatingId \notin Devices THEN w
    ELSE Emit([w EXCEPT !.dev[heatingId].autoControlEnabled = ~@,
                        !.dev[heatingId].isEmergencyStop = FALSE,
                        !.dev[heatingId].integral = 0,
                        !.dev[heatingId].prevError = 0],
              "heating.auto.control.enabled", heatingId, 0)

enableAutoControl(w, heatingId) ==
    IF heatingId \notin Devices THEN w
    ELSE Emit([w EXCEPT !.dev[heatingId].autoControlEnabled = TRUE,
                        !.dev[heatingId].isEmergencyStop = FALSE,
                        !.dev[heatingId].integral = 0,
                        !.dev[heatingId].prevError = 0],
              "heating.auto.control.enabled", heatingId, 0)

disableAutoControl(w, heatingId) ==
    IF heatingId \notin Devices THEN w
    ELSE LET w1 == [w EXCEPT !.dev[heatingId].autoControlEnabled = FALSE,
                             !.dev[heatingId].isWorking = FALSE]
             w2 == setValve(publish(w1, heatingId, "fan", 0), heatingId, FALSE)
             w3 == [w2 EXCEPT !.dev[heatingId].currentFanSpeed = 0,
                              !.dev[heatingId].pidOutput = 0]
         IN  Emit(w3, "heating.auto.control.disabled", heatingId, 0)

emergencyStop(w, heatingId) ==
    IF heatingId \notin Devices THEN w
    ELSE LET w1 == [w EXCEPT !.dev[heatingId].isEmergencyStop = TRUE,
                             !.dev[heatingId].autoControlEnabled = FALSE,
                             !.dev[heatingId].isWorking = FALSE]
             w2 == setValve(publish(w1, heatingId, "fan", 0), heatingId, FALSE)
             w3 == [w2 EXCEPT !.dev[heatingId].currentFanSpeed = 0,
                              !.dev[heatingId].pidOutput = 0]
         IN  Emit(w3, "heating.emergency.stop", heatingId, 0)

\* resetEmergencyStop that also switches automatic control back on
resetEmergencyStop_Resuming(w, heatingId) ==
    IF heatingId \notin Devices THEN w
    ELSE Emit([w EXCEPT !.dev[heatingId].isEmergencyStop = FALSE,
                        !.dev[heatingId].autoControlEnabled = TRUE],
              "heating.emergency.stop.reset", heatingId, 0)

resetEmergencyStop(w, heatingId) ==
    IF heatingId \notin Devices THEN w
    ELSE Emit([w EXCEPT !.dev[heatingId].isEmergencyStop = FALSE],
              "heating.emergency.stop.reset", heatingId, 0)

RECURSIVE setupMqttSubscriptions(_, _)
setupMqttSubscriptions(w, heatingId) ==
    IF heatingId > NDev THEN w
    ELSE setupMqttSubscriptions(subscribe(w, heatingId), heatingId + 1)

\* listeners of mqtt.sensors.connected / error / offline, one per device
RECURSIVE sensorsBrokerEvent(_, _, _)
sensorsBrokerEvent(w, online, heatingId) ==
    IF heatingId > NDev THEN w
    ELSE sensorsBrokerEvent(
             Emit([w EXCEPT !.dev[heatingId].isOnline = online],
                  "heating.update", heatingId, 0),
             online, heatingId + 1)

\* a 'connect' handler whose mqtt.sensors.connected listeners subscribe
\* nothing: only the topics remembered in the entry are replayed
sensorsClientConnect_ResubscribeOnly(w) ==
    sensorsBrokerEvent(
        resubscribeToTopics([w EXCEPT !.sensors.status = "connected",
                                      !.sensors.reconnectAttempts = 0,
                                      !.sensors.reconnects = 0]),
        TRUE, 1)

\* the 'connect' handler of the sensor client: the remembered topics, then
\* mqtt.sensors.connected with its listeners in the order they were added
sensorsClientConnect(w) ==
    LET w1 == [w EXCEPT !.sensors.status = "connected",
                        !.sensors.reconnectAttempts = 0,
                        !.sensors.reconnects = 0]
        w2 == resubscribeToTopics(w1)
        w3 == setupMqttSubscriptions(w2, 1)
    IN  sensorsBrokerEvent(w3, TRUE, 1)

(* -------------------------- ModbusSlaveService ------------------------ *)

getUnitIdFromHoldingRegisterAddress(address) ==
    [unitId |-> (address \div HOLDING_REGISTERS) + 1,
     relativeAddress |-> address % HOLDING_REGISTERS]

getUnitIdFromInputRegisterAddress(address) ==
    [unitId |-> (address \div 20) + 1, relativeAddress |-> address % 20]

getInputRegisterAddress(unitId, relativeAddress) == (unitId - 1) * 20 + relativeAddress

getHoldingRegisterAddress(unitId, relativeAddress) ==
    (unitId - 1) * HOLDING_REGISTERS + relativeAddress

\* readHoldingRegisterChange that takes the raw setpoint for degrees
readHoldingRegisterChange_Unscaled(unitId, address, value) ==
    IF getDeviceId(unitId) = 0 THEN [parameter |-> "none", deviceId |-> 0, value |-> 0]
    ELSE IF address = 0
         THEN [parameter |-> "setpointTemperature", deviceId |-> getDeviceId(unitId),
               value |-> fromInt16(value) * Unit]
    ELSE IF address = 1
         THEN [parameter |-> "hysteresis", deviceId |-> getDeviceId(unitId),
               value |-> removeScale(value)]
    ELSE [parameter |-> "none", deviceId |-> 0, value |-> 0]

\* a change record; parameter "none" stands for null
readHoldingRegisterChange(unitId, address, value) ==
    IF getDeviceId(unitId) = 0 THEN [parameter |-> "none", deviceId |-> 0, value |-> 0]
    ELSE IF address = 0
         THEN [parameter |-> "setpointTemperature", deviceId |-> getDeviceId(unitId),
               value |-> removeScale(fromInt16(value))]
    ELSE IF address = 1
         THEN [parameter |-> "hysteresis", deviceId |-> getDeviceId(unitId),
               value |-> removeScale(value)]
    ELSE [parameter |-> "none", deviceId |-> 0, value |-> 0]

readCoilChange(unitId, address, value) ==
    IF getDeviceId(unitId) = 0 THEN [parameter |-> "none", deviceId |-> 0, value |-> FALSE]
    ELSE IF address = 0
         THEN [parameter |-> "autoControlEnabled", deviceId |-> getDeviceId(unitId),
               value |-> value]
    ELSE IF address = 1
         THEN [parameter |-> "manualOverride", deviceId |-> getDeviceId(unitId),
               value |-> value]
    ELSE [parameter |-> "none", deviceId |-> 0, value |-> FALSE]

applyHeatingChange(w, change) ==
    IF change.parameter = "autoControlEnabled"
    THEN IF change.value THEN enableAutoControl(w, change.deviceId)
         ELSE disableAutoControl(w, change.deviceId)
    ELSE IF change.parameter = "setpointTemperature"
    THEN IF change.value < SetpointMin * Unit \/ change.value > SetpointMax * Unit THEN w
         ELSE setTemperature(w, change.deviceId, change.value)
    ELSE w

\* readCommand that tests the enable bit before the disable bit
readCommand_EnableFirst(w, unitId) ==
    LET commandWord == readRegister(w, unitId, "holding", 10)
    IN  IF getDeviceId(unitId) = 0 THEN 0
        ELSE IF commandWord = 0 THEN 0
        ELSE IF getBit(commandWord, 1) THEN ENABLE_AUTO_CONTROL
        ELSE IF getBit(commandWord, 2) THEN DISABLE_AUTO_CONTROL
        ELSE 0

\* the command decoded from the COMMAND word; 0 stands for null
readCommand(w, unitId) ==
    LET commandWord == readRegister(w, unitId, "holding", 10)
    IN  IF getDeviceId(unitId) = 0 THEN 0
        ELSE IF commandWord = 0 THEN 0
        ELSE IF getBit(commandWord, 2) THEN DISABLE_AUTO_CONTROL
        ELSE IF getBit(commandWord, 1) THEN ENABLE_AUTO_CONTROL
        ELSE 0

clearCommand(w, unitId) == writeRegister(w, unitId, "holding", 10, 0)

processCommand(w, unitID) ==
    LET command == readCommand(w, unitID)
    IN  IF command = 0 THEN w
        ELSE IF command = ENABLE_AUTO_CONTROL
             THEN clearCommand(enableAutoControl(w, getDeviceId(unitID)), unitID)
        ELSE IF command = DISABLE_AUTO_CONTROL
             THEN clearCommand(disableAutoControl(w, getDeviceId(unitID)), unitID)
        ELSE clearCommand(w, unitID)

\* the setInterval callback of startCommandPolling
RECURSIVE startCommandPolling(_, _)
startCommandPolling(w, unitId) ==
    IF unitId > NDev THEN w
    ELSE startCommandPolling(processCommand(w, unitId), unitId + 1)

\* FC06 that mirrors the device state into the register plane after the write
handleWriteSingleRegister_Reflecting(w, address, value) ==
    LET a == getUnitIdFromHoldingRegisterAddress(address)
        w1 == writeRegister(w, a.unitId, "holding", a.relativeAddress, value)
        change == readHoldingRegisterChange(a.unitId, a.relativeAddress, value)
        w2 == IF change.parameter = "none" THEN w1 ELSE applyHeatingChange(w1, change)
        w3 == IF a.relativeAddress = 10 THEN processCommand(w2, a.unitId) ELSE w2
    IN  syncHeatingToModbus(w3, getDeviceId(a.unitId))

\* FC06 as decoded by the library handler; the socket data listener of
\* startModbusServer runs the same steps on the raw frame before it
handleWriteSingleRegister(w, address, value) ==
    LET a == getUnitIdFromHoldingRegisterAddress(address)
        w1 == writeRegister(w, a.unitId, "holding", a.relativeAddress, value)
        change == readHoldingRegisterChange(a.unitId, a.relativeAddress, value)
        w2 == IF change.parameter = "none" THEN w1 ELSE applyHeatingChange(w1, change)
    IN  IF a.relativeAddress = 10 THEN processCommand(w2, a.unitId) ELSE w2

\* the register loop of handleWriteMultipleRegisters from index i on
RECURSIVE writeMultipleLoop(_, _, _, _)
writeMultipleLoop(w, address, values, i) ==
    IF i > Len(values) THEN w
    ELSE LET a == getUnitIdFromHoldingRegisterAddress(address)
             relativeAddr == a.relativeAddress + (i - 1)
             regValue == values[i]
             w1 == writeRegister(w, a.unitId, "holding", relativeAddr, regValue)
             change == readHoldingRegisterChange(a.unitId, relativeAddr, regValue)
             w2 == IF change.parameter = "none" THEN w1
                   ELSE applyHeatingChange(w1, change)
         IN  IF relativeAddr >= HOLDING_REGISTERS
             THEN writeMultipleLoop(w, address, values, i + 1)
             ELSE writeMultipleLoop(w2, address, values, i + 1)

\* a register loop that carries the registers past the end of a slice into
\* the slice of the next unit
RECURSIVE writeMultipleLoop_Spilling(_, _, _, _)
writeMultipleLoop_Spilling(w, address, values, i) ==
    IF i > Len(values) THEN w
    ELSE LET a == getUnitIdFromHoldingRegisterAddress(address + (i - 1))
             regValue == values[i]
             w1 == writeRegister(w, a.unitId, "holding", a.relativeAddress, regValue)
             change == readHoldingRegisterChange(a.unitId, a.relativeAddress, regValue)
             w2 == IF change.parameter = "none" THEN w1
                   ELSE applyHeatingChange(w1, change)
         IN  writeMultipleLoop_Spilling(w2, address, values, i + 1)

\* FC16 with that loop
handleWriteMultipleRegisters_Spilling(w, address, values) ==
    writeMultipleLoop_Spilling(w, address, values, 1)

\* FC16 as decoded by the library handler
handleWriteMultipleRegisters(w, address, values) ==
    LET a == getUnitIdFromHoldingRegisterAddress(address)
        w1 == writeMultipleLoop(w, address, values, 1)
    IN  IF \E i \in 0..(Len(values) - 1) : a.relativeAddress + i = 10
        THEN processCommand(w1, a.unitId)
        ELSE w1

\* the FC16 loop of the socket data listener from index i on: the command
\* is processed inside the loop
RECURSIVE socketWriteMultipleLoop(_, _, _, _)
socketWriteMultipleLoop(w, address, values, i) ==
    IF i > Len(values) THEN w
    ELSE LET a == getUnitIdFromHoldingRegisterAddress(address)
             relativeAddr == a.relativeAddress + (i - 1)
             regValue == values[i]
             w1 == writeRegister(w, a.unitId, "holding", relativeAddr, regValue)
             change == readHoldingRegisterChange(a.unitId, relativeAddr, regValue)
             w2 == IF change.parameter = "none" THEN w1
                   ELSE applyHeatingChange(w1, change)
             w3 == IF relativeAddr = 10 THEN processCommand(w2, a.unitId) ELSE w2
         IN  IF relativeAddr >= HOLDING_REGISTERS
             THEN socketWriteMultipleLoop(w, address, values, i + 1)
             ELSE socketWriteMultipleLoop(w3, address, values, i + 1)

\* FC16 as decoded from the raw frame by the socket data listener
socketWriteMultiple(w, address, values) ==
    IF Len(values) > 100 THEN w
    ELSE socketWriteMultipleLoop(w, address, values, 1)

\* FC05; the handler takes the unit from the request, not from the address
handleWriteSingleCoil(w, unitId, address, value) ==
    LET w1 == IF unitId \in getAllUnitIds /\ address >= 0 /\ address < COILS
              THEN [w EXCEPT !.coils[unitId][address] = value]
              ELSE w
        change == readCoilChange(unitId, address, value)
    IN  IF change.parameter = "none" THEN w1 ELSE applyHeatingChange(w1, change)

\* the bit loop of handleWriteMultipleCoils from index i on
RECURSIVE writeMultipleCoilsLoop(_, _, _, _, _)
writeMultipleCoilsLoop(w, unitId, address, values, i) ==
    IF i > Len(values) THEN w
    ELSE LET w1 == writeBit(w, unitId, "coils", address + (i - 1), values[i])
             change == readCoilChange(unitId, address + (i - 1), values[i])
             w2 == IF change.parameter = "none" THEN w1
                   ELSE applyHeatingChange(w1, change)
         IN  writeMultipleCoilsLoop(w2, unitId, address, values, i + 1)

\* FC15; the unit is the one of the request
handleWriteMultipleCoils(w, unitId, address, values) ==
    writeMultipleCoilsLoop(w, unitId, address, values, 1)

\* FC01: the bits returned for a request; the unit is the one of the request
handleReadCoils(w, unitId, address, quantity) ==
    [i \in 1..quantity |-> readBit(w, unitId, "coils", address + (i - 1))]

\* FC02: the bits returned for a request; the unit is the one of the request
handleReadDiscreteInputs(w, unitId, address, quantity) ==
    [i \in 1..quantity |->
        IF address + (i - 1) >= 16 THEN FALSE
        ELSE readBit(w, unitId, "discrete", address + (i - 1))]

\* FC03: the values returned for a request
handleReadHoldingRegisters(w, address, quantity) ==
    LET a == getUnitIdFromHoldingRegisterAddress(address)
    IN  [i \in 1..quantity |->
            IF a.relativeAddress + (i - 1) >= HOLDING_REGISTERS THEN 0
            ELSE readRegister(w, a.unitId, "holding", a.relativeAddress + (i - 1))]

\* FC04: the values returned for a request
handleReadInputRegisters(w, address, quantity) ==
    LET a == getUnitIdFromInputRegisterAddress(address)
    IN  IF a.unitId \notin getAllUnitIds THEN [i \in 1..quantity |-> 0]
        ELSE [i \in 1..quantity |->
                 IF a.relativeAddress + (i - 1) >= 20 THEN 0
                 ELSE readRegister(w, a.unitId, "input", a.relativeAddress + (i - 1))]

(* ------------------------------- replies ------------------------------ *)

\* HeatingController and WebsocketGateway.handleHeatingCommand: the service
\* call inside try, success after it, the error reply in catch
commandReply(threw) == IF threw THEN "error" ELSE "success"

\* the Modbus write handlers fill the response with the request's address and
\* value (or quantity): the normal response
writeResponse == "echo"

\* the Modbus read handlers fill the response with the values read
readResponse == "data"

Replied(w, r) == [w EXCEPT !.reply = r]

(* ------------------------------- actions ------------------------------ *)

\* Settings Store contents found at startup
DbInits ==
    { [d \in Devices |-> NoSetting],
      [d \in Devices |-> IF d = 1 THEN NumSetting(2250) ELSE TextSetting],
      [d \in Devices |-> IF d = 1 THEN NumSetting(5000) ELSE NumSetting(3500)] }

Step(op, d, val) == [op |-> op, dev |-> d, val |-> val]

Commit(w, step) ==
    /\ dev' = w.dev
    /\ db' = w.db
    /\ pend' = w.pend
    /\ hold' = w.hold
    /\ inp' = w.inp
    /\ coils' = w.coils
    /\ disc' = w.disc
    /\ emitted' = w.emitted
    /\ published' = w.published
    /\ dropped' = w.dropped
    /\ reply' = w.reply
    /\ sensors' = w.sensors
    /\ last' = step

\* the state after construction of HeatingService and ModbusSlaveService
Constructed ==
    /\ phase = "constructed"
    /\ connected = TRUE
    /\ sensors = [NewClient(0) EXCEPT !.status = "connected"]
    /\ dev = [d \in Devices |-> NewState(ConstructorSetpoint * Unit)]
    /\ pend = <<>>
    /\ hold = [u \in Devices |-> [a \in 0..(HOLDING_REGISTERS - 1) |-> 0]]
    /\ inp = [u \in Devices |-> [a \in 0..(INPUT_REGISTERS - 1) |-> 0]]
    /\ coils = [u \in Devices |-> [a \in 0..(COILS - 1) |-> FALSE]]
    /\ disc = [u \in Devices |-> [a \in 0..(DISCRETE_INPUTS - 1) |-> FALSE]]
    /\ emitted = <<>>
    /\ published = <<>>
    /\ dropped = <<>>
    /\ reply = "none"
    /\ last = Step("construct", 0, 0)
    /\ ticks = 0

\* HeatingService.onModuleInit up to the end of loadSettingsFromDatabase
LoadSettings ==
    /\ phase = "constructed"
    /\ phase' = "loaded"
    /\ Commit(loadSettingsFromDatabase(World, 1), Step("loadSettings", 0, 0))
    /\ UNCHANGED <<month, connected, ticks>>

\* HeatingService.onModuleInit after the load: every state is written anew,
\* then the seasonal valve sweep
HeatingModuleInit ==
    /\ phase = "loaded"
    /\ phase' = "heating"
    /\ Commit(applySasonalValveLogicToAll(
                  setupMqttSubscriptions(
                      [World EXCEPT !.dev = [d \in Devices |-> NewState(InitSetpoint * Unit)]],
                      1),
                  1),
              Step("onModuleInit", 0, 0))
    /\ UNCHANGED <<month, connected, ticks>>

RECURSIVE initialSync(_, _)
initialSync(w, deviceId) ==
    IF deviceId > NDev THEN w
    ELSE initialSync(syncHeatingToModbus(w, deviceId), deviceId + 1)

\* ModbusSlaveService.onModuleInit
ModbusModuleInit ==
    /\ phase = "heating"
    /\ phase' = "running"
    /\ Commit(initialSync(World, 1), Step("initialSync", 0, 0))
    /\ UNCHANGED <<month, connected, ticks>>

Startup == LoadSettings \/ HeatingModuleInit \/ ModbusModuleInit

\* a temperature message on the sensor topic of device d
Telemetry(d, t) ==
    /\ phase = "running"
    /\ sensors.status = "connected"
    /\ d \in sensors.subs
    /\ Commit(updateTemperature(World, d, t), Step("telemetry", d, t))
    /\ UNCHANGED <<phase, month, connected, ticks>>

\* the 1 s interval of device d fires
Tick(d) ==
    /\ phase = "running"
    /\ LET runs == dev[d].autoControlEnabled /\ ~dev[d].isEmergencyStop
       IN  /\ runs => ticks < MaxTicks
           /\ ticks' = IF runs THEN ticks + 1 ELSE ticks
    /\ Commit(pidControlInterval(World, d), Step("tick", d, 0))
    /\ UNCHANGED <<phase, month, connected>>

\* PUT :heatingId/temperature, control set_temperature, WebSocket SET_TEMPERATURE
SetTemperature(d, t) ==
    /\ phase = "running"
    /\ Len(pend) < MaxPending
    /\ Commit(Replied(setTemperature(World, d, t), commandReply(FALSE)), Step("setTemperature", d, t))
    /\ UNCHANGED <<phase, month, connected, ticks>>

\* the store write of a suspended setTemperature settles
SetTemperatureDone(i, ok) ==
    /\ phase = "running"
    /\ i \in 1..Len(pend)
    /\ Commit(setTemperatureResume(World, i, ok),
              Step(IF ok THEN "stored" ELSE "storeFailed", pend[i].dev, pend[i].temperature))
    /\ UNCHANGED <<phase, month, connected, ticks>>

EnableAuto(d) ==
    /\ phase = "running"
    /\ Commit(Replied(enableAutoControl(World, d), commandReply(FALSE)), Step("enableAuto", d, 0))
    /\ UNCHANGED <<phase, month, connected, ticks>>

DisableAuto(d) ==
    /\ phase = "running"
    /\ Commit(Replied(disableAutoControl(World, d), commandReply(FALSE)), Step("disableAuto", d, 0))
    /\ UNCHANGED <<phase, month, connected, ticks>>

EmergencyStop(d) ==
    /\ phase = "running"
    /\ Commit(Replied(emergencyStop(World, d), commandReply(FALSE)), Step("emergencyStop", d, 0))
    /\ UNCHANGED <<phase, month, connected, ticks>>

ResetEmergency(d) ==
    /\ phase = "running"
    /\ Commit(Replied(resetEmergencyStop(World, d), commandReply(FALSE)), Step("resetEmergency", d, 0))
    /\ UNCHANGED <<phase, month, connected, ticks>>

SetFanSpeed(d, s) ==
    /\ phase = "running"
    /\ Commit(Replied(setFanSpeed(World, d, s), commandReply(FALSE)), Step("setFanSpeed", d, s))
    /\ UNCHANGED <<phase, month, connected, ticks>>

\* flat holding addresses of relative register r: one per unit, and one
\* in the slice of the first unit that has no device
Addresses(r) == { getHoldingRegisterAddress(u, r) : u \in Addressed \cup {NDev + 1} }

\* an FC06 frame arrives: the data listener, then the library handler
ModbusWriteSingle(address, value) ==
    /\ phase = "running"
    /\ LET w == handleWriteSingleRegister(
                    handleWriteSingleRegister(World, address, value), address, value)
       IN  /\ Len(w.pend) <= MaxPending
           /\ Commit(Replied(w, writeResponse), Step("fc06", address, value))
    /\ UNCHANGED <<phase, month, connected, ticks>>

\* an FC16 frame with one register arrives: the same two stages
ModbusWriteMultiple(address, value) ==
    /\ phase = "running"
    /\ LET w == handleWriteMultipleRegisters(
                    handleWriteMultipleRegisters(World, address, <<value>>),
                    address, <<value>>)
       IN  /\ Len(w.pend) <= MaxPending
           /\ Commit(Replied(w, writeResponse), Step("fc16", address, value))
    /\ UNCHANGED <<phase, month, connected, ticks>>

\* an FC16 frame with several registers arrives: the data listener, then
\* the library handler
ModbusWriteRange(address, values) ==
    /\ phase = "running"
    /\ LET w == handleWriteMultipleRegisters(
                    socketWriteMultiple(World, address, values), address, values)
       IN  /\ Len(w.pend) <= MaxPending
           /\ Commit(Replied(w, writeResponse), Step("fc16n", address, Len(values)))
    /\ UNCHANGED <<phase, month, connected, ticks>>

\* an FC04 frame arrives: the handler reads, nothing is written
ModbusReadInput(address, quantity) ==
    /\ phase = "running"
    /\ Commit(Replied(World, readResponse), Step("fc04", address, quantity))
    /\ UNCHANGED <<phase, month, connected, ticks>>

\* an FC05 frame arrives
ModbusWriteCoil(unitId, address, value) ==
    /\ phase = "running"
    /\ Commit(Replied(handleWriteSingleCoil(World, unitId, address, value), writeResponse),
              Step(IF value THEN "fc05_on" ELSE "fc05_off", unitId, address))
    /\ UNCHANGED <<phase, month, connected, ticks>>

\* an FC15 frame arrives
ModbusWriteCoils(unitId, address, values) ==
    /\ phase = "running"
    /\ Commit(Replied(handleWriteMultipleCoils(World, unitId, address, values),
                      writeResponse),
              Step(IF values[1] THEN "fc15_on" ELSE "fc15_off", unitId, address))
    /\ UNCHANGED <<phase, month, connected, ticks>>

\* an FC01 frame arrives: the handler reads, nothing is written
ModbusReadCoils(unitId, address) ==
    /\ phase = "running"
    /\ Commit(Replied(World, readResponse), Step("fc01", unitId, address))
    /\ UNCHANGED <<phase, month, connected, ticks>>

\* an FC02 frame arrives: the handler reads, nothing is written
ModbusReadDiscrete(unitId, address) ==
    /\ phase = "running"
    /\ Commit(Replied(World, readResponse), Step("fc02", unitId, address))
    /\ UNCHANGED <<phase, month, connected, ticks>>

\* the 100 ms command poll
CommandPoll ==
    /\ phase = "running"
    /\ Commit(startCommandPolling(World, 1), Step("poll", 0, 0))
    /\ UNCHANGED <<phase, month, connected, ticks>>

\* mqtt.sensors.connected (TRUE), mqtt.sensors.error / offline (FALSE)
SensorsBroker(online) ==
    /\ phase = "running"
    /\ Commit(sensorsBrokerEvent(World, online, 1),
              Step("sensorsBroker", 0, IF online THEN 1 ELSE 0))
    /\ UNCHANGED <<phase, month, connected, ticks>>

\* the sensor client raises 'error'
SensorsError ==
    /\ phase = "running"
    /\ sensors.status # "closed"
    /\ Commit(sensorsBrokerEvent(World, FALSE, 1), Step("sensorsError", 0, 0))
    /\ UNCHANGED <<phase, month, connected, ticks>>

\* the sensor client raises 'close': its connection, or its attempt to
\* connect, has ended
SensorsClose ==
    /\ phase = "running"
    /\ sensors.status # "closed"
    /\ sensors.timers < MaxTimers
    /\ Commit(handleReconnect([World EXCEPT !.sensors.status = "closed",
                                            !.sensors.subs = {}]),
              Step("sensorsClose", 0, 0))
    /\ UNCHANGED <<phase, month, connected, ticks>>

\* the sensor client raises 'offline'
SensorsOffline ==
    /\ phase = "running"
    /\ sensors.status = "closed"
    /\ sensors.timers < MaxTimers
    /\ Commit(handleReconnect(World), Step("sensorsOffline", 0, 0))
    /\ UNCHANGED <<phase, month, connected, ticks>>

\* a reconnect timeout fires
SensorsTimer ==
    /\ phase = "running"
    /\ sensors.timers > 0
    /\ sensors.reconnects < MaxReconnects
    /\ Commit(connectToBroker([World EXCEPT !.sensors.timers = @ - 1,
                                            !.sensors.reconnects = @ + 1]),
              Step("sensorsTimer", 0, 0))
    /\ UNCHANGED <<phase, month, connected, ticks>>

\* the sensor client raises 'connect'
SensorsConnect ==
    /\ phase = "running"
    /\ sensors.status = "connecting"
    /\ Commit(sensorsClientConnect(World), Step("sensorsConnect", 0, 0))
    /\ UNCHANGED <<phase, month, connected, ticks>>

\* the actuator broker connects or drops
ActuatorBroker ==
    /\ phase = "running"
    /\ connected' = ~connected
    /\ Commit(World, Step("actuatorBroker", 0, 0))
    /\ UNCHANGED <<phase, month, ticks>>

\* the wall clock read by getSeasonalValveState passes into the next month
MonthPasses ==
    /\ phase = "running"
    /\ month' = (month % 12) + 1
    /\ Commit(World, Step("month", 0, (month % 12) + 1))
    /\ UNCHANGED <<phase, connected, ticks>>

(* --------------------------- specifications --------------------------- *)

\* The control engine: telemetry, the regulator interval of every device and
\* the commands of the HTTP / WebSocket / coil surfaces, in every season.
Init ==
    /\ Constructed
    /\ month \in Months
    /\ db = [d \in Devices |-> NoSetting]

Next ==
    \/ Startup
    \/ \E d \in Commanded, t \in TempInputs : Telemetry(d, t)
    \/ \E d \in Devices : Tick(d)
    \/ \E d \in Commanded : EnableAuto(d)
    \/ \E d \in Commanded : DisableAuto(d)
    \/ \E d \in Commanded : EmergencyStop(d)
    \/ \E d \in Commanded : ResetEmergency(d)
    \/ \E d \in Commanded, s \in FanInputs : SetFanSpeed(d, s)
    \/ \E d \in Commanded, v \in BOOLEAN : ModbusWriteCoil(d, 0, v)
    \/ \E online \in BOOLEAN : SensorsBroker(online)
    \/ ActuatorBroker

Spec == Init /\ [][Next]_vars

\* The setpoint path: SetTemperature from HTTP / WebSocket and writes of the
\* SETPOINT_TEMP register, for every unit.
InitSetpointPath ==
    /\ Constructed
    /\ month = 1
    /\ db = [d \in Devices |-> NoSetting]

NextSetpointPath ==
    \/ Startup
    \/ \E d \in Addressed, t \in SetInputs : SetTemperature(d, t)
    \/ \E i \in 1..MaxPending, ok \in BOOLEAN : SetTemperatureDone(i, ok)
    \/ \E a \in Addresses(0), v \in SetpointRaw : ModbusWriteSingle(a, v)
    \/ \E a \in Addresses(0), v \in SetpointRaw : ModbusWriteMultiple(a, v)

SpecSetpoint == InitSetpointPath /\ [][NextSetpointPath]_vars

\* Startup from every Settings Store content, then SetTemperature.
InitStartup ==
    /\ Constructed
    /\ month = 1
    /\ db \in DbInits

NextStartup ==
    \/ Startup
    \/ \E d \in Addressed, t \in SetInputs : SetTemperature(d, t)
    \/ \E i \in 1..MaxPending, ok \in BOOLEAN : SetTemperatureDone(i, ok)

SpecStartup == InitStartup /\ [][NextStartup]_vars

\* The command path: the COMMAND word and the coils of every unit, the
\* command poll, and the same commands from HTTP / WebSocket.
InitCommandPath ==
    /\ Constructed
    /\ month \in Months
    /\ db = [d \in Devices |-> NoSetting]

NextCommandPath ==
    \/ Startup
    \/ \E a \in Addresses(10), v \in CommandRaw : ModbusWriteSingle(a, v)
    \/ \E a \in Addresses(10), v \in CommandRaw : ModbusWriteMultiple(a, v)
    \/ \E u \in Addressed, v \in BOOLEAN : ModbusWriteCoil(u, 0, v)
    \/ CommandPoll
    \/ \E d \in Addressed : EnableAuto(d)
    \/ \E d \in Addressed : DisableAuto(d)

SpecCommand == InitCommandPath /\ [][NextCommandPath]_vars

\* Overlapping commands of one device: SetTemperature calls suspended at
\* their store write, and the synchronous commands issued meanwhile.
InitOrdering ==
    /\ Constructed
    /\ month = 1
    /\ db = [d \in Devices |-> NoSetting]

NextOrdering ==
    \/ Startup
    \/ \E d \in Commanded, t \in OrderInputs : SetTemperature(d, t)
    \/ \E i \in 1..MaxPending, ok \in BOOLEAN : SetTemperatureDone(i, ok)
    \/ \E d \in Commanded : EmergencyStop(d)
    \/ \E d \in Commanded : EnableAuto(d)

SpecOrdering == InitOrdering /\ [][NextOrdering]_vars

\* The register plane: frames that write holding registers anywhere in a
\* slice, frames that run past a slice, and the reads of both register areas.
InitPlane ==
    /\ Constructed
    /\ month = 1
    /\ db = [d \in Devices |-> NoSetting]

NextPlane ==
    \/ Startup
    \/ \E d \in Devices, t \in TempInputs : Telemetry(d, t)
    \/ \E a \in Addresses(HOLDING_REGISTERS - 1) : ModbusWriteRange(a, PastEnd)
    \/ \E u \in Devices, q \in {20, 20 * NDev} :
           ModbusReadInput(getInputRegisterAddress(u, 0), q)

SpecPlane == InitPlane /\ [][NextPlane]_vars

\* Single-register writes anywhere in a slice and the events that mirror the
\* device state over them.
InitRoundTrip ==
    /\ Constructed
    /\ month = 1
    /\ db = [d \in Devices |-> NoSetting]

NextRoundTrip ==
    \/ Startup
    \/ \E r \in RoundTripRegs, v \in RoundTripRaw :
           \E a \in Addresses(r) : ModbusWriteSingle(a, v)
    \/ \E i \in 1..MaxPending, ok \in BOOLEAN : SetTemperatureDone(i, ok)

SpecRoundTrip == InitRoundTrip /\ [][NextRoundTrip]_vars

\* The seasons: a server that keeps running while the months pass, with the
\* regulator interval of every device and the automatic-control commands.
InitSeason ==
    /\ Constructed
    /\ month \in SeasonStarts
    /\ db = [d \in Devices |-> NoSetting]

NextSeason ==
    \/ Startup
    \/ \E d \in Commanded, t \in TempInputs : Telemetry(d, t)
    \/ \E d \in Devices : Tick(d)
    \/ \E d \in Commanded : EnableAuto(d)
    \/ \E d \in Commanded : DisableAuto(d)
    \/ MonthPasses

SpecSeason == InitSeason /\ [][NextSeason]_vars

\* The bit areas: coil writes and the reads of coils and discrete inputs,
\* with every unit byte a frame can carry.
InitCoil ==
    /\ Constructed
    /\ month = 1
    /\ db = [d \in Devices |-> NoSetting]

NextCoil ==
    \/ Startup
    \/ \E u \in MbapUnits, a \in CoilAddresses, v \in BOOLEAN : ModbusWriteCoil(u, a, v)
    \/ \E u \in MbapUnits, a \in {0, COILS}, f \in CoilFrames : ModbusWriteCoils(u, a, f)
    \/ \E u \in MbapUnits, a \in {0, COILS} : ModbusReadCoils(u, a)
    \/ \E u \in MbapUnits, a \in {0, DISCRETE_INPUTS} : ModbusReadDiscrete(u, a)
    \/ \E d \in Commanded, t \in TempInputs : Telemetry(d, t)

SpecCoil == InitCoil /\ [][NextCoil]_vars

\* The replies: commands with arguments inside and outside their limits from
\* HTTP / WebSocket, and writes of the SETPOINT_TEMP register.
InitReply ==
    /\ Constructed
    /\ month = 1
    /\ db = [d \in Devices |-> NoSetting]

NextReply ==
    \/ Startup
    \/ \E d \in Commanded, t \in SetInputs : SetTemperature(d, t)
    \/ \E i \in 1..MaxPending, ok \in BOOLEAN : SetTemperatureDone(i, ok)
    \/ \E d \in Commanded, s \in FanInputs : SetFanSpeed(d, s)
    \/ \E a \in Addresses(0), v \in SetpointRaw : ModbusWriteSingle(a, v)

SpecReply == InitReply /\ [][NextReply]_vars

\* The status bits: everything that changes a status of a device, in every
\* season.
InitStatus ==
    /\ Constructed
    /\ month \in Months
    /\ db = [d \in Devices |-> NoSetting]

NextStatus ==
    \/ Startup
    \/ \E d \in Commanded, t \in TempInputs : Telemetry(d, t)
    \/ \E d \in Devices : Tick(d)
    \/ \E d \in Commanded : EnableAuto(d)
    \/ \E d \in Commanded : DisableAuto(d)
    \/ \E d \in Commanded : EmergencyStop(d)
    \/ \E d \in Commanded : ResetEmergency(d)
    \/ \E online \in BOOLEAN : SensorsBroker(online)

SpecStatus == InitStatus /\ [][NextStatus]_vars

\* The encoding of readings: telemetry over the whole INT16 x10 range and
\* the read of CURRENT_TEMP.
InitEncoding ==
    /\ Constructed
    /\ month = 1
    /\ db = [d \in Devices |-> NoSetting]

NextEncoding ==
    \/ Startup
    \/ \E d \in Devices, t \in EdgeTemps : Telemetry(d, t)
    \/ \E u \in Devices : ModbusReadInput(getInputRegisterAddress(u, 0), 1)

SpecEncoding == InitEncoding /\ [][NextEncoding]_vars

\* The sensor broker: its connection is lost and made again while telemetry
\* arrives and the intervals fire.
InitBroker ==
    /\ Constructed
    /\ month = 1
    /\ db = [d \in Devices |-> NoSetting]

NextBroker ==
    \/ Startup
    \/ \E d \in Devices, t \in TempInputs : Telemetry(d, t)
    \/ \E d \in Devices : Tick(d)
    \/ SensorsError
    \/ SensorsClose
    \/ SensorsOffline
    \/ SensorsTimer
    \/ SensorsConnect

SpecBroker == InitBroker /\ [][NextBroker]_vars

\* The regulator: ticks of a device under automatic control while its
\* temperature moves around the setpoint and the setpoint is changed, one
\* change after the other.
InitRegulator ==
    /\ Constructed
    /\ month = 1
    /\ db = [d \in Devices |-> NoSetting]

NextRegulator ==
    \/ Startup
    \/ \E d \in Commanded, t \in RegTemps : Telemetry(d, t)
    \/ \E d \in Devices : Tick(d)
    \/ \E d \in Commanded : EnableAuto(d)
    \/ pend = <<>> /\ \E d \in Commanded, t \in OrderInputs : SetTemperature(d, t)
    \/ SetTemperatureDone(1, TRUE)

SpecRegulator == InitRegulator /\ [][NextRegulator]_vars

\* Overlapping SetTemperature calls of each device whose store writes all
\* succeed and settle in any order.
InitOverlap ==
    /\ Constructed
    /\ month = 1
    /\ db = [d \in Devices |-> NoSetting]

NextOverlap ==
    \/ Startup
    \/ \E d \in Addressed, t \in OrderInputs : SetTemperature(d, t)
    \/ \E i \in 1..MaxPending : SetTemperatureDone(i, TRUE)

SpecOverlap == InitOverlap /\ [][NextOverlap]_vars

\* Isolation of the devices: a command, setpoint writes, coil writes and
\* frames that run past the end of a slice, for each unit; a setpoint write
\* arrives when the store writes of the one before it have settled.
InitIsolation ==
    /\ Constructed
    /\ month = 1
    /\ db = [d \in Devices |-> NoSetting]

NextIsolation ==
    \/ Startup
    \/ \E d \in Addressed : EmergencyStop(d)
    \/ pend = <<>> /\ \E a \in Addresses(0), v \in SetpointRaw : ModbusWriteSingle(a, v)
    \/ SetTemperatureDone(1, TRUE)
    \/ \E a \in Addresses(HOLDING_REGISTERS - 1) : ModbusWriteRange(a, PastEnd)
    \/ \E u \in Addressed : ModbusWriteCoil(u, 0, TRUE)

SpecIsolation == InitIsolation /\ [][NextIsolation]_vars

(* ----------------------------- properties ----------------------------- *)

HasEvent(events, name, d) ==
    \E i \in 1..Len(events) : events[i].name = name /\ events[i].dev = d

\* an FC06 or FC16 frame was the step
WriteStep(step) == step.op \in {"fc06", "fc16"}

\* an FC03 read of one register at a flat address, from given register planes
Read1(h, i, address) == handleReadHoldingRegisters([hold |-> h, inp |-> i], address, 1)

\* C1: in every reachable state of every device, emergency stop implies
\* automatic control off, fan output 0 and the valve closed.
C1_EmergencyStopSafe ==
    \A d \in Devices :
        dev[d].isEmergencyStop =>
            /\ ~dev[d].autoControlEnabled
            /\ dev[d].currentFanSpeed = 0
            /\ dev[d].valveState = "closed"

\* the fan was commanded to 50 % while the device is in emergency stop
C1_FanSetInEmergency ==
    /\ last = Step("setFanSpeed", 1, 5000)
    /\ dev[1].isEmergencyStop
    /\ dev[1].currentFanSpeed = 5000

\* C2: when the current temperature of a device exceeds its overheat limit,
\* the device is in emergency stop once a regulator tick has passed, whether
\* or not automatic control is enabled.
C2_OverheatTrips ==
    (last.op = "tick" /\ dev[last.dev].currentTemperature > TEMP_OVERHEAT_LIMIT * Unit)
        => dev[last.dev].isEmergencyStop

\* a tick passed at 36 degC and the device is not in emergency stop
C2_TickWhileOverheated ==
    /\ last = Step("tick", 1, 0)
    /\ dev[1].currentTemperature = 3600
    /\ dev[1].autoControlEnabled
    /\ ~dev[1].isEmergencyStop

\* C3: in every reachable state, startup loading included, the setpoint of
\* every device lies in [5, 35] degC.
C3_SetpointInRange ==
    \A d \in Devices :
        /\ dev[d].setpointTemperature >= 5 * Unit
        /\ dev[d].setpointTemperature <= 35 * Unit

\* the Settings Store held 50 degC and startup loading has run
C3_LoadedOutOfRange ==
    /\ phase = "loaded"
    /\ db[1] = NumSetting(5000)
    /\ dev[1].setpointTemperature = 5000

C7_CommandCleared ==
    \A N \in Devices :
        (WriteStep(last) /\ last.dev = (N - 1) * 30 + 10)
            => Read1(hold, inp, (N - 1) * 30 + 10) = <<0>>

\* 1 was written to the COMMAND register of unit 1 and stays there
C7_CommandStays ==
    /\ last = Step("fc06", 10, 1)
    /\ hold[1][10] = 1

\* C8: when startup has completed, a device whose stored setpoint lies in
\* [5, 35] holds that value, and every other device holds the default.
C8_StoredSetpointLoaded ==
    (last.op = "initialSync") =>
        \A d \in Devices :
            dev[d].setpointTemperature =
                IF db[d].k = "num" /\ db[d].v >= 5 * Unit /\ db[d].v <= 35 * Unit
                THEN db[d].v
                ELSE InitSetpoint * Unit

\* startup completed with 22.5 degC stored for device 1, which holds 23 degC
C8_StoredValueLost ==
    /\ last.op = "initialSync"
    /\ db[1] = NumSetting(2250)
    /\ dev[1].setpointTemperature = 2300

\* the signed reading of a 16-bit register value
Signed16(v) == IF v >= 32768 THEN v - 65536 ELSE v

\* C9: SetTemperature(t) with t < 5 or t > 35, from HTTP / WebSocket or as a
\* Modbus write of the SETPOINT_TEMP register, leaves the state of every
\* device unchanged, starts no Settings Store write and emits no
\* heating.setpoint.changed event.
C9_RejectedSetTemperature ==
    [][ /\ (last'.op = "setTemperature"
              /\ (last'.val < 5 * Unit \/ last'.val > 35 * Unit))
           => (dev' = dev /\ db' = db /\ pend' = pend /\ emitted' = <<>>)
        /\ \A N \in Devices :
              (WriteStep(last') /\ last'.dev = (N - 1) * 30
                 /\ (Signed16(last'.val) < 50 \/ Signed16(last'.val) > 350))
              => (dev' = dev /\ db' = db /\ pend' = pend /\ emitted' = <<>>)
      ]_vars

\* SetTemperature(35.01) was rejected for device 1, which keeps 22.5 degC
C9_RejectedKeepsSetpoint ==
    /\ last = Step("setTemperature", 1, 3501)
    /\ dev[1].setpointTemperature = 2250
    /\ pend = <<>>

\* C10: a valid SetTemperature(t) makes t the in-memory setpoint; when its
\* Settings Store write fails the in-memory setpoint stays as it is, the
\* store is unchanged, the call completes and heating.setpoint.changed is
\* emitted for t.
C10_StoreFailure ==
    [][ /\ (last'.op = "setTemperature"
              /\ last'.val >= 5 * Unit /\ last'.val <= 35 * Unit)
           => /\ dev'[last'.dev].setpointTemperature = last'.val
              /\ pend' = Append(pend, [dev |-> last'.dev, temperature |-> last'.val])
        /\ (last'.op = "storeFailed")
           => /\ dev' = dev
              /\ db' = db
              /\ Len(pend') = Len(pend) - 1
              /\ emitted' = << [name |-> "heating.setpoint.changed",
                                dev |-> last'.dev, val |-> last'.val] >>
      ]_vars

\* the store write of SetTemperature(22.55) failed; device 1 holds 22.55
C10_FailedWriteKept ==
    /\ last = Step("storeFailed", 1, 2255)
    /\ dev[1].setpointTemperature = 2255
    /\ db[1] = NoSetting
    /\ pend = <<>>

\* C11: per device, events are emitted in the order in which the commands
\* were applied to the state: the heating.setpoint.changed event of a
\* SetTemperature is emitted only when no earlier-applied SetTemperature of
\* that device still waits for its event, and no other event of the device
\* is emitted while an applied SetTemperature still waits for its event.
C11_EventsInAppliedOrder ==
    [][ \A k \in 1..Len(emitted') :
          LET e == emitted'[k]
          IN  IF e.name = "heating.setpoint.changed"
              THEN \E i \in 1..Len(pend) :
                      /\ pend[i] = [dev |-> e.dev, temperature |-> e.val]
                      /\ pend' = RemoveAt(pend, i)
                      /\ \A j \in 1..(i - 1) : pend[j].dev # e.dev
              ELSE \A j \in 1..Len(pend) : pend[j].dev # e.dev
      ]_vars

\* the emergency stop of device 1 emitted its event while SetTemperature(22.5),
\* applied before it, has not emitted heating.setpoint.changed
C11_LaterEventFirst ==
    /\ last = Step("emergencyStop", 1, 0)
    /\ HasEvent(emitted, "heating.emergency.stop", 1)
    /\ dev[1].setpointTemperature = 2250
    /\ pend = << [dev |-> 1, temperature |-> 2250] >>

\* C12: in every reachable state of every device, isWorking holds exactly
\* when the fan output is above 0.
C12_WorkingIffFanOn ==
    \A d \in Devices : dev[d].isWorking <=> dev[d].currentFanSpeed > 0

\* the fan of device 1 was set to 50 % by hand and the device does not count
\* as working
C12_FanSetNotWorking ==
    /\ last = Step("setFanSpeed", 1, 5000)
    /\ dev[1].currentFanSpeed = 5000
    /\ ~dev[1].isWorking
    /\ ~dev[1].isEmergencyStop

\* C13: a write frame whose range runs past the slice of its unit, or whose
\* address resolves to a unit without a device, generates no command and
\* changes neither the state of any device nor the register plane.
C13_OutOfSliceIgnored ==
    [][ (last'.op = "fc16n"
           /\ LET a == getUnitIdFromHoldingRegisterAddress(last'.dev)
              IN  \/ a.unitId \notin Devices
                  \/ a.relativeAddress + last'.val > HOLDING_REGISTERS)
        => /\ dev' = dev
           /\ pend' = pend
           /\ hold' = hold
           /\ inp' = inp
           /\ coils' = coils
           /\ disc' = disc
           /\ emitted' = <<>>
      ]_vars

\* a frame of two registers at address 29, the last register of unit 1, left
\* its first register in the slice
C13_OverflowApplied ==
    /\ last = Step("fc16n", HOLDING_REGISTERS - 1, Len(PastEnd))
    /\ hold[1][HOLDING_REGISTERS - 1] = PastEnd[1]
    /\ hold[2][0] # PastEnd[2]

\* the input-register slice of unit k as the register plane holds it: the
\* registers of the memory map, then zeros up to the stride
InputSlice(k) == [j \in 0..19 |-> IF j < INPUT_REGISTERS THEN inp[k][j] ELSE 0]

\* C14: an FC04 read at flat address 0 whose quantity covers the slices of
\* all devices returns that many registers, and registers [20(k-1), 20k) are
\* the input-register slice of device k, for every device k.
C14_ContiguousRead ==
    (last = Step("fc04", 0, 20 * NDev)) =>
        LET values == handleReadInputRegisters(World, last.dev, last.val)
        IN  /\ Len(values) = 20 * NDev
            /\ \A k \in Devices : \A j \in 0..19 :
                   values[20 * (k - 1) + j + 1] = InputSlice(k)[j]

\* the read over all slices was answered while the slice of unit 2 holds an
\* open valve, and the answer has 0 in its place
C14_SecondSliceZero ==
    /\ last = Step("fc04", 0, 20 * NDev)
    /\ inp[2][2] = 1
    /\ handleReadInputRegisters(World, 0, 20 * NDev)[20 + 2 + 1] = 0

C16_RegisterMirrorsSetpoint ==
    \A N \in Devices :
        LET mirrored == Read1(hold, inp, (N - 1) * 30)
                            = <<JSRound(dev[N].setpointTemperature, 10) % 65536>>
        IN  /\ (WriteStep(last) /\ last.dev = (N - 1) * 30
                   /\ (Signed16(last.val) < 50 \/ Signed16(last.val) > 350))
                => mirrored
            /\ (last.op \in {"stored", "storeFailed"} /\ last.dev = N
                   /\ \A i \in 1..Len(pend) : pend[i].dev # N)
                => mirrored

\* 65484 (-5.2 degC) was written to the setpoint register of unit 1 and
\* rejected; the register holds it while the setpoint is 23 degC
C16_RejectedValueStays ==
    /\ last = Step("fc06", 0, 65484)
    /\ Read1(hold, inp, 0) = <<65484>>
    /\ dev[1].setpointTemperature = InitSetpoint * Unit
    /\ pend = <<>>

\* the registers FC03 / FC04 read for device d are what mirroring its state
\* now would write
Mirrored(d) ==
    LET w == syncHeatingToModbus(World, d)
    IN  w.hold[d] = hold[d] /\ w.inp[d] = inp[d]

\* C17: within one second of any change of a device's state, also one that
\* emitted no event, the values read via FC03 / FC04 for the device equal
\* its snapshot: when the 1 s interval of the device has fired, its register
\* slices mirror its state.
C17_SweepReasserts ==
    (last.op = "tick") => Mirrored(last.dev)

\* the 1 s interval of device 1 fired after its fan was set to 50 % by hand;
\* CURRENT_FAN_SPEED still reads 0
C17_FanSpeedStale ==
    /\ last = Step("tick", 1, 0)
    /\ dev[1].currentFanSpeed = 5000
    /\ ~dev[1].autoControlEnabled
    /\ handleReadInputRegisters(World, getInputRegisterAddress(1, 1), 1) = <<0>>

HasMessage(messages, d, topic) ==
    \E i \in 1..Len(messages) : messages[i].dev = d /\ messages[i].topic = topic

\* C18: when a fan or valve message issued by a regulator tick, DisableAuto
\* or EmergencyStop was discarded because the broker was not connected, the
\* next regulator tick of the device publishes on that topic again.
C18_RepublishedOnTick ==
    [][ \A d \in Devices : \A topic \in {"fan", "valve"} :
          (/\ last.op \in {"tick", "disableAuto", "emergencyStop"}
           /\ HasMessage(dropped, d, topic)
           /\ last'.op = "tick" /\ last'.dev = d)
          => HasMessage(published' \o dropped', d, topic)
      ]_vars

\* the 1 s interval of device 1 fired while the device is in emergency stop
\* and the broker is away; no message was issued
C18_NothingReissued ==
    /\ last = Step("tick", 1, 0)
    /\ dev[1].isEmergencyStop
    /\ dev[1].valveState = "closed"
    /\ ~connected
    /\ published \o dropped = <<>>

\* C19: when the temperature reported for a device is below its freeze
\* limit, the regulator tick leaves the fan at the upper output limit and
\* the valve open, and the device out of emergency stop (a device that was
\* put in emergency stop by a command is not considered).
C19_FreezeForcesHeat ==
    (/\ last.op = "tick"
     /\ dev[last.dev].isOnline
     /\ dev[last.dev].currentTemperature < TEMP_FREEZE_LIMIT * Unit
     /\ ~dev[last.dev].isEmergencyStop)
    => /\ dev[last.dev].currentFanSpeed = outputMax * Unit
       /\ dev[last.dev].valveState = "open"

\* the regulator of device 1 ran at -5.2 degC in a summer month and the
\* valve is closed
C19_FrozenValveClosed ==
    /\ last = Step("tick", 1, 0)
    /\ month = 7
    /\ dev[1].currentTemperature = -520
    /\ dev[1].isOnline
    /\ dev[1].autoControlEnabled
    /\ ~dev[1].isEmergencyStop
    /\ dev[1].valveState = "closed"

\* C20: in a winter month (November to March), once the startup sweep has
\* run, every device that is not in emergency stop has its valve open,
\* whether automatic control is on or off.
C20_WinterValveOpen ==
    (month \in {11, 12, 1, 2, 3} /\ phase \in {"heating", "running"})
    => \A d \in Devices : ~dev[d].isEmergencyStop => dev[d].valveState = "open"

\* automatic control of device 1 was switched off in January and its valve
\* is closed
C20_DisabledValveClosed ==
    /\ last = Step("disableAuto", 1, 0)
    /\ month = 1
    /\ ~dev[1].isEmergencyStop
    /\ ~dev[1].autoControlEnabled
    /\ dev[1].valveState = "closed"

\* C21: while the month is a summer month (6, 7, 8), the startup sweep and
\* every regulator tick leave the valve closed, so the valve of every device
\* is closed in every reachable state.
C21_SummerValveClosed ==
    (month \in {6, 7, 8}) => \A d \in Devices : dev[d].valveState = "closed"

\* the 1 s interval of device 2 fired in June; the device was never put under
\* automatic control and its valve is open since the sweep of a winter start
C21_OpenIntoSummer ==
    /\ last = Step("tick", 2, 0)
    /\ month = 6
    /\ ~dev[2].autoControlEnabled
    /\ dev[2].valveState = "open"

\* an FC05 or FC15 frame was the step
CoilWriteStep(step) == step.op \in {"fc05_on", "fc05_off", "fc15_on", "fc15_off"}

\* C22: an FC05 or FC15 write to coil bit 0 of the slice of device N, flat
\* coil address (N-1)*16 with N taken from the address by the stride-16 rule,
\* applies EnableAuto to device N when the value is true and DisableAuto when
\* it is false; a write to coil 1 of a slice changes no device state.
C22_CoilStride ==
    [][ CoilWriteStep(last')
        => LET N == (last'.val \div COILS) + 1
               bit == last'.val % COILS
           IN  /\ (bit = 0 /\ N \in Devices /\ last'.op \in {"fc05_on", "fc15_on"})
                   => dev' = enableAutoControl(World, N).dev
               /\ (bit = 0 /\ N \in Devices /\ last'.op \in {"fc05_off", "fc15_off"})
                   => dev' = disableAutoControl(World, N).dev
               /\ (bit = 1) => dev' = dev
      ]_vars

\* true was written to coil 16, bit 0 of the slice of device 2, in a frame
\* for unit 1; no device was put under automatic control
C22_SecondSliceIgnored ==
    /\ last = Step("fc05_on", 1, COILS)
    /\ \A d \in Devices : ~dev[d].autoControlEnabled
    /\ emitted = <<>>

\* what a frame changes: the device states, the bit and register areas, the
\* events and the calls left waiting for the Settings Store
Effect(w) == <<w.dev, w.pend, w.hold, w.inp, w.coils, w.disc, w.emitted>>

\* C23: for every supported function code the device a request reads or
\* writes is determined by the address alone: two requests that differ only
\* in the unit byte of the frame return the same data and cause the same
\* state change.  (The handlers of FC03, FC04, FC06 and FC16 resolve the unit
\* from the address and take no unit; the bit handlers are compared here.)
C23_UnitByteIrrelevant ==
    (phase = "running") =>
        \A u1 \in MbapUnits, u2 \in MbapUnits :
            /\ \A a \in {0, COILS} :
                   handleReadCoils(World, u1, a, BitQuantity)
                       = handleReadCoils(World, u2, a, BitQuantity)
            /\ \A a \in {0, DISCRETE_INPUTS} :
                   handleReadDiscreteInputs(World, u1, a, BitQuantity)
                       = handleReadDiscreteInputs(World, u2, a, BitQuantity)
            /\ \A a \in CoilAddresses, v \in BOOLEAN :
                   Effect(handleWriteSingleCoil(World, u1, a, v))
                       = Effect(handleWriteSingleCoil(World, u2, a, v))
            /\ \A a \in {0, COILS}, f \in CoilFrames :
                   Effect(handleWriteMultipleCoils(World, u1, a, f))
                       = Effect(handleWriteMultipleCoils(World, u2, a, f))

\* coils were read at address 0 in a frame for unit 1 while device 1 is under
\* automatic control and device 2 is not: the same read in a frame for unit 2
\* returns another bit 0
C23_ReadFollowsUnitByte ==
    /\ last = Step("fc01", 1, 0)
    /\ dev[1].autoControlEnabled
    /\ ~dev[2].autoControlEnabled
    /\ handleReadCoils(World, 1, 0, BitQuantity)[1]
    /\ ~handleReadCoils(World, 2, 0, BitQuantity)[1]

\* C24: every command rejected by validation (SetTemperature or SetFanSpeed
\* out of range) is reported as a failure to the source that issued it: the
\* HTTP or WebSocket reply is not a success reply, and a rejected Modbus
\* write of the setpoint is not answered with the normal echo response.
C24_RejectionReported ==
    /\ (last.op = "setTemperature"
           /\ (last.val < SetpointMin * Unit \/ last.val > SetpointMax * Unit))
       => reply # "success"
    /\ (last.op = "setFanSpeed" /\ (last.val < 0 \/ last.val > 100 * Unit))
       => reply # "success"
    /\ \A N \in Devices :
          (WriteStep(last) /\ last.dev = (N - 1) * HOLDING_REGISTERS
             /\ (Signed16(last.val) < SetpointMin * Scale
                   \/ Signed16(last.val) > SetpointMax * Scale))
          => reply # "echo"

\* SetTemperature(35.01) was rejected for device 1, which keeps its setpoint,
\* and the caller was answered success
C24_RejectedAnsweredSuccess ==
    /\ last = Step("setTemperature", 1, 3501)
    /\ dev[1].setpointTemperature = InitSetpoint * Unit
    /\ pend = <<>>
    /\ reply = "success"

\* C25: for every device, after every synchronization of its state into the
\* register plane (the initial one at startup and the one inside every step
\* that emits an event of the device), bit k of the status word, input
\* register 4, equals discrete input k for every k in 0..7, with bit 0 =
\* isOnline, bit 1 = isWorking, bit 2 = isEmergencyStop, bit 4 =
\* autoControlEnabled and bit 7 = valve open.
C25_StatusWordMatchesBits ==
    (phase = "running") =>
        \A d \in Devices :
            /\ \A k \in 0..7 : getBit(inp[d][4], k) = disc[d][k]
            /\ disc[d][0] = dev[d].isOnline
            /\ disc[d][1] = dev[d].isWorking
            /\ disc[d][2] = dev[d].isEmergencyStop
            /\ disc[d][4] = dev[d].autoControlEnabled
            /\ disc[d][7] = (dev[d].valveState = "open")

\* the regulator of device 1 ran in January on a cold reading: online,
\* working, automatic control on and the valve open, status word 147
C25_WorkingStatus ==
    /\ last = Step("tick", 1, 0)
    /\ inp[1][4] = 147
    /\ disc[1][0] /\ disc[1][1] /\ ~disc[1][2] /\ disc[1][4] /\ disc[1][7]
    /\ dev[1].valveState = "open"

\* C26: a temperature reading T is exposed in input register 0 of its device
\* as round(T * 10) & 0xFFFF, so that sign-extending the register yields
\* round(T * 10) for every T in [-3276.8, 3276.7]; telemetry -5.2 for device 1
\* makes FC04 at address 0, quantity 1, return 0xFFCC.
C26_Int16Reading ==
    (phase = "running") =>
        \A d \in Devices :
            LET T == dev[d].currentTemperature
                r == handleReadInputRegisters(World, getInputRegisterAddress(d, 0), 1)[1]
            IN  (dev[d].isOnline /\ T >= -327680 /\ T <= 327670)
                => /\ r = JSRound(T, 10) % 65536
                   /\ Signed16(r) = JSRound(T, 10)
                   /\ (T = -520) => r = 65484

\* device 1 reported -5.2 degC and FC04 at address 0, quantity 1, was
\* answered 0xFFCC
C26_MinusFivePointTwo ==
    /\ last = Step("fc04", 0, 1)
    /\ dev[1].currentTemperature = -520
    /\ dev[1].isOnline
    /\ handleReadInputRegisters(World, 0, 1) = <<65484>>

\* C27: from every reachable device state, applying EnableAuto twice in
\* succession yields the same device state (automatic control, emergency
\* stop, integral, previous error, fan output, valve, setpoint) as applying
\* it once.
C27_EnableAutoIdempotent ==
    (phase = "running") =>
        \A d \in Devices :
            LET once == enableAutoControl(World, d)
                twice == enableAutoControl(once, d)
            IN  twice.dev = once.dev

\* EnableAuto was applied to device 1 while it was under automatic control
\* with the regulator running: the integral is reset, the rest is kept, and
\* one more EnableAuto changes nothing
C27_EnabledAgain ==
    /\ last = Step("enableAuto", 1, 0)
    /\ dev[1].autoControlEnabled
    /\ dev[1].isWorking
    /\ dev[1].pidOutput > 0
    /\ dev[1].integral = 0
    /\ enableAutoControl(World, 1).dev = dev

\* the seasonal valve target of the specification
SeasonalTarget(m, pidOutput) ==
    IF m \in {11, 12, 1, 2, 3} THEN TRUE
    ELSE IF m \in {6, 7, 8} THEN FALSE
    ELSE pidOutput > 0

\* C28: the seasonal valve target is a total function of the month and the
\* regulator output alone: open in months 11, 12, 1, 2, 3, closed in months
\* 6, 7, 8, and in months 4, 5, 9, 10 open exactly when the output is above 0;
\* the valve a regulator run leaves is that target for the output of the run.
C28_SeasonalTarget ==
    /\ month \in 1..12
    /\ \A p \in PidOutputs : getSeasonalValveState(p) = SeasonalTarget(month, p)
    /\ (last.op = "tick" /\ dev[last.dev].autoControlEnabled
           /\ ~dev[last.dev].isEmergencyStop)
       => (dev[last.dev].valveState = "open")
              = SeasonalTarget(month, dev[last.dev].pidOutput)

\* the regulator of device 1 ran in October with output 0 and closed the
\* valve it had opened in the winter before
C28_AutumnClosed ==
    /\ last = Step("tick", 1, 0)
    /\ month = 10
    /\ dev[1].autoControlEnabled
    /\ dev[1].pidOutput = 0
    /\ dev[1].valveState = "closed"
    /\ HasMessage(published, 1, "valve")

\* C29: when the connection to the sensor broker is lost (the client closed or
\* offline, with or without an error), is_online of every device is false
\* once the next periodic tick of a device has run.
C29_OfflineByNextTick ==
    [][(sensors.status # "connected" /\ last'.op = "tick")
           => \A d \in Devices : ~dev'[d].isOnline]_vars

\* a tick has run after the client closed without an error, and the devices
\* are still reported online
C29_ClosedStillOnline ==
    /\ last.op = "tick"
    /\ sensors.status = "closed"
    /\ \A d \in Devices : dev[d].isOnline

\* C30: whenever the sensor client is connected, also after a loss and a new
\* connection, the temperature topic of every device is subscribed on that
\* client and remembered, so that telemetry of every device is delivered.
C30_Resubscribed ==
    (phase = "running" /\ sensors.status = "connected")
        => /\ sensors.subs = Devices
           /\ sensors.topics = Devices

\* a new client has connected after a loss and holds every subscription
C30_ReconnectedSubscribed ==
    /\ last.op = "sensorsConnect"
    /\ sensors.status = "connected"
    /\ sensors.subs = Devices

\* the tick now taken runs the regulator of its device
RegulatorRuns(d) ==
    /\ last'.op = "tick"
    /\ last'.dev = d
    /\ dev[d].autoControlEnabled
    /\ ~dev[d].isEmergencyStop

\* the fan commands handed to the actuator broker by the last step, in order
FanCommands(messages, d) ==
    SelectSeq(messages, LAMBDA m : m.dev = d /\ m.topic = "fan")

\* C31: a regulator tick with output u publishes the fan command 0 when
\* u < 15 and u otherwise, and stores the published command as the fan
\* output of the device.
C31_FanOutputIsCommand ==
    [][\A d \in Devices :
          RegulatorRuns(d) =>
              LET u == dev'[d].pidOutput
                  command == IF u < MinFanSpeed * Unit THEN 0 ELSE u
              IN  /\ FanCommands(published', d) = <<[dev |-> d, topic |-> "fan", val |-> command]>>
                  /\ dev'[d].currentFanSpeed = command]_vars

\* a regulator tick has published the fan command 0 and has left a fan
\* output above 0
C31_FanOffOutputKept ==
    /\ last.op = "tick"
    /\ \E d \in Devices :
           /\ last.dev = d
           /\ FanCommands(published, d) = <<[dev |-> d, topic |-> "fan", val |-> 0]>>
           /\ dev[d].currentFanSpeed > 0
           /\ dev[d].currentFanSpeed < MinFanSpeed * Unit

\* the error a regulator run of this state works with: setpoint minus
\* temperature, or 0 inside the hysteresis band of a working device
EffectiveError(state) ==
    LET e == state.setpointTemperature - state.currentTemperature
    IN  IF state.isWorking /\ e < 0 /\ -e <= HYSTERESIS THEN 0 ELSE e

\* C32: a regulator tick with effective error e adds e to the integral and,
\* only when e < 0, multiplies the sum by 0.95 once and bounds it below by 0.
C32_SingleBleed ==
    [][\A d \in Devices :
          RegulatorRuns(d) =>
              LET e == EffectiveError(dev[d])
                  sum == dev[d].integral + e
              IN  dev'[d].integral =
                      IF e < 0 THEN Max(0, (sum * 95) \div 100) ELSE sum]_vars

\* a regulator tick with a negative error has left a positive integral
C32_BledIntegral ==
    /\ last.op = "tick"
    /\ dev[last.dev].prevError < 0
    /\ dev[last.dev].integral > 0

HasCommand(messages, d, topic, val) ==
    \E i \in 1..Len(messages) :
        messages[i] = [dev |-> d, topic |-> topic, val |-> val]

\* C33: after DisableAuto on a device automatic control and working are off,
\* fan output and regulator output are 0, the valve is closed, a fan command
\* 0 and a valve closed command have been published, AutoDisabled has been
\* emitted, and setpoint and emergency stop are as before.
C33_DisableAuto ==
    [][\A d \in Devices :
          (last'.op = "disableAuto" /\ last'.dev = d) =>
              /\ ~dev'[d].autoControlEnabled
              /\ ~dev'[d].isWorking
              /\ dev'[d].currentFanSpeed = 0
              /\ dev'[d].pidOutput = 0
              /\ dev'[d].valveState = "closed"
              /\ HasCommand(published', d, "fan", 0)
              /\ HasCommand(published', d, "valve", 0)
              /\ HasEvent(emitted', "heating.auto.control.disabled", d)
              /\ dev'[d].setpointTemperature = dev[d].setpointTemperature
              /\ dev'[d].isEmergencyStop = dev[d].isEmergencyStop]_vars

\* DisableAuto has run and has published the fan command alone
C33_NoValveCommand ==
    /\ last.op = "disableAuto"
    /\ HasCommand(published, last.dev, "fan", 0)
    /\ \A i \in 1..Len(published) : published[i].topic # "valve"
    /\ dropped = <<>>
    /\ HasEvent(emitted, "heating.auto.control.disabled", last.dev)

\* C34: ResetEmergency clears emergency stop, emits EmergencyReset and
\* changes nothing else of the device, so that after an emergency stop
\* automatic control is still off; a tick after a reset with automatic
\* control off neither changes the device nor publishes, and only EnableAuto
\* switches automatic control on.
C34_ResetEmergencyFrame ==
    [][/\ \A d \in Devices :
             (last'.op = "resetEmergency" /\ last'.dev = d) =>
                 /\ dev' = [dev EXCEPT ![d].isEmergencyStop = FALSE]
                 /\ dev[d].isEmergencyStop => ~dev'[d].autoControlEnabled
                 /\ HasEvent(emitted', "heating.emergency.stop.reset", d)
                 /\ published' = <<>>
                 /\ dropped' = <<>>
       /\ (/\ last.op = "resetEmergency"
           /\ last'.op = "tick"
           /\ last'.dev = last.dev
           /\ ~dev[last.dev].autoControlEnabled)
              => /\ dev' = dev
                 /\ published' = <<>>
                 /\ dropped' = <<>>
       /\ \A d \in Devices :
             (~dev[d].autoControlEnabled /\ dev'[d].autoControlEnabled)
                 => last' = Step("enableAuto", d, 0)]_vars

\* ResetEmergency has run in winter on a device that an emergency stop or a
\* DisableAuto had shut: emergency stop is clear, automatic control is off
\* and the valve is still closed
C34_ResetLeavesOff ==
    /\ last.op = "resetEmergency"
    /\ month = 1
    /\ HasEvent(emitted, "heating.emergency.stop.reset", last.dev)
    /\ ~dev[last.dev].isEmergencyStop
    /\ ~dev[last.dev].autoControlEnabled
    /\ dev[last.dev].valveState = "closed"
    /\ dev[last.dev].currentFanSpeed = 0

\* C35: a tick of a device whose automatic control is off or whose emergency
\* stop is set leaves integral, previous error, regulator output, fan output
\* and valve state as they were and publishes no command.
C35_TickGuarded ==
    [][\A d \in Devices :
          (/\ last'.op = "tick"
           /\ last'.dev = d
           /\ (~dev[d].autoControlEnabled \/ dev[d].isEmergencyStop))
              => /\ dev'[d].integral = dev[d].integral
                 /\ dev'[d].prevError = dev[d].prevError
                 /\ dev'[d].pidOutput = dev[d].pidOutput
                 /\ dev'[d].currentFanSpeed = dev[d].currentFanSpeed
                 /\ dev'[d].valveState = dev[d].valveState
                 /\ published' = <<>>
                 /\ dropped' = <<>>]_vars

\* the interval of a device under emergency stop has fired while its reading
\* was away from the setpoint
C35_TickUnderEmergency ==
    /\ last.op = "tick"
    /\ dev[last.dev].isEmergencyStop
    /\ dev[last.dev].isOnline
    /\ dev[last.dev].currentTemperature < dev[last.dev].setpointTemperature
    /\ published = <<>>

\* the valve commands handed to the actuator broker by the last step, in order
ValveCommands(messages, d) ==
    SelectSeq(messages, LAMBDA m : m.dev = d /\ m.topic = "valve")

C37_StoredIsLastApplied ==
    pend = <<>> =>
        \A d \in Devices :
            db[d].k = "num" => db[d].v = dev[d].setpointTemperature

\* every store write has settled, none has failed, and the stored setpoint
\* is the one of the call applied first
C37_EarlierValueStored ==
    /\ pend = <<>>
    /\ last.op = "stored"
    /\ db[last.dev] = NumSetting(last.val)
    /\ dev[last.dev].setpointTemperature # last.val

\* the unit a step is addressed to: the device of a command, the unit byte
\* of a coil frame, the unit whose slice holds the start address of a
\* register frame; 0 for a step that is addressed to no unit
AddressedUnit(step) ==
    IF step.op \in {"fc06", "fc16", "fc16n"}
    THEN getUnitIdFromHoldingRegisterAddress(step.dev).unitId
    ELSE IF step.op \in {"setTemperature", "stored", "storeFailed", "enableAuto",
                         "disableAuto", "emergencyStop", "resetEmergency",
                         "setFanSpeed", "fc05_on", "fc05_off", "fc15_on", "fc15_off"}
    THEN step.dev
    ELSE 0

OfDevice(messages, d) == SelectSeq(messages, LAMBDA m : m.dev = d)

\* C38: a command or a write frame addressed to one device changes no state
\* field, no stored setting, no pending call and no register or bit of any
\* other device, and emits and publishes nothing for another device; this
\* includes an FC16 frame that runs past relative address 29 of its slice.
C38_DevicesIsolated ==
    [][\A b \in Devices :
          (AddressedUnit(last') # 0 /\ AddressedUnit(last') # b) =>
              /\ dev'[b] = dev[b]
              /\ db'[b] = db[b]
              /\ OfDevice(pend', b) = OfDevice(pend, b)
              /\ hold'[b] = hold[b]
              /\ inp'[b] = inp[b]
              /\ coils'[b] = coils[b]
              /\ disc'[b] = disc[b]
              /\ OfDevice(emitted', b) = <<>>
              /\ OfDevice(published', b) = <<>>]_vars

\* an FC16 frame of two registers at the last register of unit 1 has been
\* taken: its first register is in the slice of unit 1, and unit 2 has its
\* setpoint register, its setpoint and no pending call
C38_OverflowStaysInSlice ==
    /\ last = Step("fc16n", HOLDING_REGISTERS - 1, Len(PastEnd))
    /\ hold[1][HOLDING_REGISTERS - 1] = PastEnd[1]
    /\ hold[2][0] = applyScale(dev[2].setpointTemperature)
    /\ dev[2].setpointTemperature # removeScale(PastEnd[2])
    /\ OfDevice(pend, 2) = <<>>

\* C39: the connections attempted in a row by reconnect timeouts of the
\* sensor broker, with no successful connection between them, never number
\* more than maxReconnectAttempts.
C39_ReconnectsBounded ==
    sensors.reconnects <= maxReconnectAttempts

\* a reconnect timeout has made one more connection attempt after
\* maxReconnectAttempts attempts in a row had failed, and the counter of the
\* client entry is back at 0
C39_AttemptAfterLimit ==
    /\ last.op = "sensorsTimer"
    /\ sensors.reconnects > maxReconnectAttempts
    /\ sensors.status = "connecting"
    /\ sensors.reconnectAttempts = 0

\* C40: the integral term of every device is at least 0, after every
\* regulator tick and after every EnableAuto, whatever the temperatures and
\* setpoints were.
C40_IntegralNonNegative ==
    \A d \in Devices : dev[d].integral >= 0

\* a regulator tick with a negative error has run on an integral that the
\* error would have taken below 0, and the integral is 0
C40_IntegralHeldAtZero ==
    /\ last.op = "tick"
    /\ dev[last.dev].autoControlEnabled
    /\ dev[last.dev].prevError < 0
    /\ dev[last.dev].integral = 0

=============================================================================
